---------------------------- MODULE Spec2Model ----------------------------
(***************************************************************************)
(* Model of the text-run grouping engine of import-pdf-al:                 *)
(* groupTextItems in src/src/ui/worker/paragraph-grouper.ts.               *)
(*                                                                         *)
(* One call of groupTextItems is modelled as a sequential process: the     *)
(* guard on the empty input, the sort, one step per iteration of the       *)
(* for-loop, and the final push.  Spec is one call.  SpecTwice calls the   *)
(* function a second time on the same array.  SpecPages runs two calls on  *)
(* two arrays and lets them take turns after any step.                     *)
(*                                                                         *)
(* The callers of the engine are modelled beside it, each in a variable of *)
(* its own: App.handleImport (SpecApp), PDFProcessor.getPageData           *)
(* (SpecProcessor) and the plugin controller's create-page handler         *)
(* (SpecPlugin).                                                           *)
(*                                                                         *)
(* Numbers.  The source computes with IEEE doubles.  The model computes    *)
(* with exact integers that count Den-ths of a page unit, so 8.5 is the    *)
(* integer 17 when Den = 2.  Every threshold of the source is scaled the   *)
(* same way (5 becomes 5 * Den), and a comparison against a product with a *)
(* fraction is cleared of its denominator (g < f * 2.5 is 2*g < 5*f).      *)
(* All inputs of the model lie on that grid, where doubles are exact.      *)
(*                                                                         *)
(* Strings are sequences of one-character strings, so that trim() and      *)
(* startsWith() are computed rather than assumed.                          *)
(***************************************************************************)
EXTENDS Integers, Sequences, FiniteSets

VARIABLES
    items,        \* the caller's array (argument of groupTextItems)
    sorted,       \* const sorted = [...items].sort(...)
    pc,           \* position in groupTextItems: "start", "loop", "done"
    idx,          \* position of the for-of iterator in sorted (1-based)
    paragraphs,   \* const paragraphs: Paragraph[]
    currentPara,  \* let currentPara: Paragraph | null
    lastItem,     \* let lastItem: TextItem | null
    earlier,      \* history: what an earlier call on the same array returned
    other,        \* the activation of a second, suspended call (or Null)
    app,          \* the App component: its state and its handleImport call
    processor,    \* a PDFProcessor, console.warn and the getPageData calls
    plugin        \* the plugin controller: frames, nodes, processItems runs

vars ==
    <<items, sorted, pc, idx, paragraphs, currentPara, lastItem, earlier, other,
      app, processor, plugin>>

-----------------------------------------------------------------------------
(* Bounds of the model *)

\* longest input array
MaxLen == 3

\* grid resolution: numbers are integers counting 1/Den page units
Den == 2

-----------------------------------------------------------------------------
(* Values *)

\* JavaScript null (currentPara, lastItem before the first accepted run)
Null == [type |-> "null"]

\* JavaScript undefined, for the optional fields
Undefined == "undefined"

Abs(n) == IF n < 0 THEN -n ELSE n

Max(a, b) == IF a >= b THEN a ELSE b

\* characters String.prototype.trim() strips (those the model's inputs use)
WhiteSpace == {" ", "\n", "\t"}

RECURSIVE TrimStart(_)
TrimStart(s) ==
    IF s # <<>> /\ Head(s) \in WhiteSpace THEN TrimStart(Tail(s)) ELSE s

RECURSIVE TrimEnd(_)
TrimEnd(s) ==
    IF s # <<>> /\ s[Len(s)] \in WhiteSpace
    THEN TrimEnd(SubSeq(s, 1, Len(s) - 1))
    ELSE s

\* Defect variant of Trim: the test written as !item.str, without trim().
NoTrim(s) == s

\* item.str.trim()
Trim(s) == TrimEnd(TrimStart(s))

\* item.str.startsWith(' ')
StartsWithSpace(s) == s # <<>> /\ Head(s) = " "

\* interface TextItem.  height and transform are never read by groupTextItems
\* and are left out.  id is the identity of the object (its position in the
\* caller's array), which JavaScript carries implicitly.  semanticGroupId is
\* the optional tag of the specification's TextRun; the source's TextItem does
\* not declare it and no line of groupTextItems reads it.
TextItem(str, x, y, width, fontSize, fontFamily, fontWeight, fontStyle, color, sem) ==
    [type |-> "text", id |-> 0, str |-> str, x |-> x, y |-> y, width |-> width,
     fontSize |-> fontSize, fontFamily |-> fontFamily, fontWeight |-> fontWeight,
     fontStyle |-> fontStyle, color |-> color,
     letterSpacing |-> Undefined, lineHeight |-> Undefined,
     semanticGroupId |-> sem]

\* Defect variant of NewParagraph: a paragraph is given an alignment when it
\* is created.
NewParagraphAligned(item) ==
    [type |-> "paragraph", text |-> item.str, x |-> item.x, y |-> item.y,
     width |-> item.width, fontSize |-> item.fontSize,
     fontFamily |-> item.fontFamily, fontWeight |-> item.fontWeight,
     fontStyle |-> item.fontStyle, color |-> item.color,
     letterSpacing |-> item.letterSpacing, lineHeight |-> item.lineHeight,
     textAlign |-> "LEFT",
     lines |-> << <<item.id>> >>]

\* The object literal that starts a paragraph (twice in the source, with the
\* same fields).  lines is a history field the source's Paragraph does not have:
\* the ids of the items whose str went into text, one sequence per line.
NewParagraph(item) ==
    [type |-> "paragraph", text |-> item.str, x |-> item.x, y |-> item.y,
     width |-> item.width, fontSize |-> item.fontSize,
     fontFamily |-> item.fontFamily, fontWeight |-> item.fontWeight,
     fontStyle |-> item.fontStyle, color |-> item.color,
     letterSpacing |-> item.letterSpacing, lineHeight |-> item.lineHeight,
     lines |-> << <<item.id>> >>]

-----------------------------------------------------------------------------
(* Ordering stage *)

\* the compare function handed to Array.prototype.sort
cmp(a, b) ==
    LET yDiff == b.y - a.y
    IN  IF Abs(yDiff) > 5 * Den THEN yDiff ELSE a.x - b.x

\* the arrangements of n elements: p[i] is the original position of the
\* element that comes i-th
Arrangements(n) ==
    {p \in [1..n -> 1..n] : \A i, j \in 1..n : p[i] = p[j] => i = j}

\* What a stable comparison sort returns is justified by its comparisons:
\* every element was compared with its successor and found to sort before
\* it, or found equal to it and kept in the original order.
Justified(arr, p) ==
    \A i \in 1..(Len(arr) - 1) :
        \/ cmp(arr[p[i]], arr[p[i + 1]]) < 0
        \/ cmp(arr[p[i]], arr[p[i + 1]]) = 0 /\ p[i] < p[i + 1]

\* [...items].sort(cmp): the arrays the call can return.  When cmp is a
\* consistent comparator on the elements there is one justified arrangement,
\* the stable sort.  When it is not, the language leaves the order to the
\* implementation, and which justified arrangement comes out depends on the
\* sorting algorithm and on the arrangement of the input.
SortOutcomes(arr) ==
    {[i \in 1..Len(arr) |-> arr[p[i]]] :
        p \in {q \in Arrangements(Len(arr)) : Justified(arr, q)}}

-----------------------------------------------------------------------------
(* Grouping stage: the tests of one loop iteration *)

\* !item.str.trim()
IsSkipped(item) == Trim(item.str) = <<>>

\* Defect variant of SameStyle: the colour comparison left out (the test as it
\* stood before colour was added to it).
SameStyleNoColor(item, para) ==
    /\ item.fontFamily = para.fontFamily
    /\ Abs(item.fontSize - para.fontSize) < 1 * Den
    /\ item.fontWeight = para.fontWeight
    /\ item.fontStyle = para.fontStyle

\* Defect variant of SameStyle: the colour test written as
\* item.color && item.color === currentPara.color, so that an unset colour
\* matches nothing.
SameStyleColorRequired(item, para) ==
    /\ item.fontFamily = para.fontFamily
    /\ Abs(item.fontSize - para.fontSize) < 1 * Den
    /\ item.fontWeight = para.fontWeight
    /\ item.fontStyle = para.fontStyle
    /\ item.color # Undefined
    /\ item.color = para.color

\* 1. Same Stylings
SameStyle(item, para) ==
    /\ item.fontFamily = para.fontFamily
    /\ Abs(item.fontSize - para.fontSize) < 1 * Den
    /\ item.fontWeight = para.fontWeight
    /\ item.fontStyle = para.fontStyle
    /\ item.color = para.color

\* (lastItem?.y || 0)
LastY(last) == IF last = Null THEN 0 ELSE last.y

\* 2. Vertical Proximity
VerticalGap(item, last) == LastY(last) - item.y

\* Defect variant of IsNextLine: the gap measured without its direction.
IsNextLineEitherWay(item, last) ==
    2 * Abs(VerticalGap(item, last)) < 5 * item.fontSize

IsNextLine(item, last) ==
    /\ VerticalGap(item, last) > 0
    /\ 2 * VerticalGap(item, last) < 5 * item.fontSize

\* 3. Horizontal Alignment
AlignedLeft(item, para) == Abs(item.x - para.x) < 20 * Den

\* Earlier variant of SameLine (src/unnamed/part_000, line 84): a tolerance of
\* 2 whatever the font size.
SameLineFixedTolerance(item, last) ==
    4 * Abs(item.y - LastY(last)) < 4 * 2 * Den

\* 4. Same Line: Math.abs(item.y - lastY) < Math.max(2, item.fontSize * 0.25)
SameLine(item, last) ==
    4 * Abs(item.y - LastY(last)) < Max(4 * 2 * Den, item.fontSize)

\* the condition of the if at line 97
ShouldAppend(item, para, last) ==
    SameStyle(item, para)
        /\ ((IsNextLine(item, last) /\ AlignedLeft(item, para)) \/ SameLine(item, last))

\* Defect variant of JoinText: the space is inserted whatever the run's text
\* begins with.
JoinTextAlways(text, str) == text \o <<" ">> \o str

\* currentPara.text += (item.str.startsWith(' ') ? '' : ' ') + item.str
JoinText(text, str) ==
    text \o (IF StartsWithSpace(str) THEN <<>> ELSE <<" ">>) \o str

\* Earlier variant of Appended (src/unnamed/part_000, line 102): a line break
\* in front of a run that starts a new line.
AppendedHardBreak(para, item, last) ==
    IF SameLine(item, last)
    THEN [para EXCEPT !.text = JoinText(@, item.str),
            !.width = Max(@, (item.x + item.width) - para.x),
            !.lines = [@ EXCEPT ![Len(@)] = Append(@, item.id)]]
    ELSE [para EXCEPT !.text = @ \o <<"\n">> \o item.str,
            !.width = Max(@, item.width),
            !.lines = Append(@, <<item.id>>)]

\* Defect variant of Appended: the paragraph's y follows the line that was
\* merged last.
AppendedMovesOrigin(para, item, last) ==
    IF SameLine(item, last)
    THEN [para EXCEPT !.text = JoinText(@, item.str),
            !.width = Max(@, (item.x + item.width) - para.x),
            !.lines = [@ EXCEPT ![Len(@)] = Append(@, item.id)]]
    ELSE [para EXCEPT !.text = JoinText(@, item.str),
            !.y = item.y,
            !.width = Max(@, item.width),
            !.lines = Append(@, <<item.id>>)]

\* Defect variant of Appended: the widths of the runs of a line are summed
\* (the approach the comment at lines 105-107 sets aside).
AppendedSumsWidth(para, item, last) ==
    IF SameLine(item, last)
    THEN [para EXCEPT !.text = JoinText(@, item.str),
            !.width = @ + item.width,
            !.lines = [@ EXCEPT ![Len(@)] = Append(@, item.id)]]
    ELSE [para EXCEPT !.text = JoinText(@, item.str),
            !.width = Max(@, item.width),
            !.lines = Append(@, <<item.id>>)]

\* Defect variant of Appended: on the same line the width becomes the extent
\* of the run merged last, without the maximum.
AppendedLastExtent(para, item, last) ==
    IF SameLine(item, last)
    THEN [para EXCEPT !.text = JoinText(@, item.str),
            !.width = (item.x + item.width) - para.x,
            !.lines = [@ EXCEPT ![Len(@)] = Append(@, item.id)]]
    ELSE [para EXCEPT !.text = JoinText(@, item.str),
            !.width = Max(@, item.width),
            !.lines = Append(@, <<item.id>>)]

\* Defect variant of Appended: a new line widens the paragraph to its right
\* edge as a run on the same line does.
AppendedNewLineExtent(para, item, last) ==
    IF SameLine(item, last)
    THEN [para EXCEPT !.text = JoinText(@, item.str),
            !.width = Max(@, (item.x + item.width) - para.x),
            !.lines = [@ EXCEPT ![Len(@)] = Append(@, item.id)]]
    ELSE [para EXCEPT !.text = JoinText(@, item.str),
            !.width = Max(@, (item.x + item.width) - para.x),
            !.lines = Append(@, <<item.id>>)]

\* Defect variant of Appended: the branches in the other order, a run that
\* passes the next-line test being taken as a new line.
AppendedNextLineFirst(para, item, last) ==
    IF IsNextLine(item, last) /\ AlignedLeft(item, para)
    THEN [para EXCEPT !.text = JoinText(@, item.str),
            !.width = Max(@, item.width),
            !.lines = Append(@, <<item.id>>)]
    ELSE [para EXCEPT !.text = JoinText(@, item.str),
            !.width = Max(@, (item.x + item.width) - para.x),
            !.lines = [@ EXCEPT ![Len(@)] = Append(@, item.id)]]

\* the then-branch of the if at line 97, on currentPara
Appended(para, item, last) ==
    IF SameLine(item, last)
    THEN [para EXCEPT
            !.text = JoinText(@, item.str),
            !.width = Max(@, (item.x + item.width) - para.x),
            !.lines = [@ EXCEPT ![Len(@)] = Append(@, item.id)]]
    ELSE [para EXCEPT
            !.text = JoinText(@, item.str),
            !.width = Max(@, item.width),
            !.lines = Append(@, <<item.id>>)]

-----------------------------------------------------------------------------
(* Inputs *)

StrA == <<"A">>

StrBlank == <<" ">>

Black == "rgb(0, 0, 0)"

Red == "rgb(255, 0, 0)"

\* a run of the base style
BaseRun(str, x, y, sem) ==
    TextItem(str, x * Den, y * Den, 5 * Den, 8 * Den, "Arial", "400", "normal",
             Black, sem)

\* a run at (0, 8) whose style is given
StyledRun(fontSize, fontFamily, fontWeight, fontStyle, color) ==
    TextItem(StrA, 0, 8 * Den, 5 * Den, fontSize, fontFamily, fontWeight,
             fontStyle, color, Undefined)

\* geometry: three columns on three baselines 4 apart, a line far above, and
\* a whitespace-only run
PoolGeom ==
    {BaseRun(StrA, x, y, Undefined) : x \in {0, 10, 200}, y \in {0, 4, 8}}
        \cup {BaseRun(StrA, 0, 28, Undefined), BaseRun(StrBlank, 10, 8, Undefined)}

\* style: one position, every style field varied alone, and two runs one line
\* below
PoolStyle ==
    {StyledRun(8 * Den, "Arial", "400", "normal", Black),
     StyledRun(8 * Den + 1, "Arial", "400", "normal", Black),
     StyledRun(9 * Den, "Arial", "400", "normal", Black),
     StyledRun(8 * Den, "Times", "400", "normal", Black),
     StyledRun(8 * Den, "Arial", "700", "normal", Black),
     StyledRun(8 * Den, "Arial", "400", "italic", Black),
     StyledRun(8 * Den, "Arial", "400", "normal", Red),
     StyledRun(8 * Den, "Arial", "400", "normal", Undefined),
     BaseRun(StrA, 10, 4, Undefined),
     TextItem(StrA, 10 * Den, 4 * Den, 5 * Den, 8 * Den, "Arial", "400",
              "normal", Red, Undefined),
     BaseRun(StrBlank, 0, 8, Undefined)}

\* semantic group ids: two positions, the id absent or one of two
PoolSem ==
    {BaseRun(StrA, 0, 8, s) : s \in {Undefined, "g1", "g2"}}
        \cup {BaseRun(StrA, 10, 4, s) : s \in {Undefined, "g1", "g2"}}
        \cup {BaseRun(StrBlank, 0, 8, Undefined)}

StrB == <<" ", "B">>

StrC == <<"\n", "C">>

\* text: two positions one line apart, the text beginning with a letter, a
\* space or a line feed
PoolText ==
    {BaseRun(str, 0, 8, Undefined) : str \in {StrA, StrB, StrC}}
        \cup {BaseRun(str, 10, 4, Undefined) : str \in {StrA, StrB, StrC}}
        \cup {BaseRun(StrBlank, 0, 8, Undefined)}

\* a run of the base style whose width is given
WideRun(x, y, width) ==
    TextItem(StrA, x * Den, y * Den, width * Den, 8 * Den, "Arial", "400",
             "normal", Black, Undefined)

\* extent: two runs on one baseline and one a line below, narrow or wide
PoolBox ==
    {WideRun(0, 8, w) : w \in {5, 40}}
        \cup {WideRun(10, 8, w) : w \in {5, 40}}
        \cup {WideRun(10, 4, w) : w \in {5, 40}}

\* a run of the base style at x = 0 whose baseline and font size are given
SizedRun(y, fontSize) ==
    TextItem(StrA, 0, y * Den, 5 * Den, fontSize * Den, "Arial", "400",
             "normal", Black, Undefined)

\* baselines 1, 2, 3 and 4 apart, in 8-unit and in 16-unit type: at size 8 the
\* same-line tolerance is 2, at size 16 it is 4
PoolLine ==
    {SizedRun(y, 8) : y \in {8, 7, 6}} \cup {SizedRun(y, 16) : y \in {8, 5, 4}}

\* line spacing and left alignment at size 8, where the next-line gap ends at
\* 20: lines 19 and 20 below a first line, at x offsets 19 and 20, a third
\* line 19 further down and 19 further right, and a line 3 above another
PoolNext ==
    { BaseRun(StrA, 0, 40, Undefined), BaseRun(StrA, 0, 21, Undefined),
      BaseRun(StrA, 0, 20, Undefined), BaseRun(StrA, 19, 21, Undefined),
      BaseRun(StrA, 20, 21, Undefined), BaseRun(StrA, 38, 2, Undefined),
      BaseRun(StrA, 0, 24, Undefined) }

\* a run 1 below another, within the same-line tolerance and within the
\* next-line gap at once, at the same x or 25 to the right
PoolBoth ==
    { BaseRun(StrA, 0, 8, Undefined), BaseRun(StrA, 0, 7, Undefined),
      BaseRun(StrA, 25, 7, Undefined), BaseRun(StrA, 25, 8, Undefined) }

Pools ==
    {PoolGeom, PoolStyle, PoolSem, PoolText, PoolBox, PoolLine, PoolNext,
     PoolBoth}

-----------------------------------------------------------------------------
(* groupTextItems *)

Init ==
    /\ \E pool \in Pools : \E n \in 0..MaxLen : \E s \in [1..n -> pool] :
          items = [k \in 1..n |-> [s[k] EXCEPT !.id = k]]
    /\ sorted = <<>>
    /\ pc = "start"
    /\ idx = 1
    /\ paragraphs = <<>>
    /\ currentPara = Null
    /\ lastItem = Null
    /\ earlier = Null
    /\ other = Null
    /\ app = Null
    /\ processor = Null
    /\ plugin = Null

\* if (items.length === 0) return [];
ReturnEmpty ==
    /\ pc = "start"
    /\ Len(items) = 0
    /\ paragraphs' = <<>>
    /\ pc' = "done"
    /\ UNCHANGED <<items, sorted, idx, currentPara, lastItem>>

\* Defect variant of SortItems: the return at line 34 missing, so that an
\* empty array falls through to the sort.
SortItemsUnguarded ==
    /\ pc = "start"
    /\ sorted' \in SortOutcomes(items)
    /\ paragraphs' = <<>>
    /\ currentPara' = Null
    /\ lastItem' = Null
    /\ idx' = 1
    /\ pc' = "loop"
    /\ UNCHANGED items

\* Defect variant of SortItems: items.sort(...) on the caller's array, without
\* the copy.
SortItemsInPlace ==
    /\ pc = "start"
    /\ Len(items) # 0
    /\ sorted' \in SortOutcomes(items)
    /\ items' = sorted'
    /\ paragraphs' = <<>>
    /\ currentPara' = Null
    /\ lastItem' = Null
    /\ idx' = 1
    /\ pc' = "loop"

\* Defect variant of SortItems: paragraphs, currentPara and lastItem declared
\* at module level instead of inside the function, so that a call starts with
\* what the call before it left there.
SortItemsSharedAccumulators ==
    /\ pc = "start"
    /\ Len(items) # 0
    /\ sorted' \in SortOutcomes(items)
    /\ idx' = 1
    /\ pc' = "loop"
    /\ UNCHANGED <<items, paragraphs, currentPara, lastItem>>

\* const sorted = [...items].sort(...); and the three declarations after it
SortItems ==
    /\ pc = "start"
    /\ Len(items) # 0
    /\ sorted' \in SortOutcomes(items)
    /\ paragraphs' = <<>>
    /\ currentPara' = Null
    /\ lastItem' = Null
    /\ idx' = 1
    /\ pc' = "loop"
    /\ UNCHANGED items

\* the next item of the for-of loop
AtItem == pc = "loop" /\ idx <= Len(sorted)

\* Defect variant of SkipItem: the loop written with an index that the
\* continue statement leaves where it is.
SkipItemStuck ==
    /\ AtItem
    /\ IsSkipped(sorted[idx])
    /\ idx' = idx
    /\ UNCHANGED <<items, sorted, pc, paragraphs, currentPara, lastItem>>

\* if (!item.str.trim()) continue;
SkipItem ==
    /\ AtItem
    /\ IsSkipped(sorted[idx])
    /\ idx' = idx + 1
    /\ UNCHANGED <<items, sorted, pc, paragraphs, currentPara, lastItem>>

\* if (!currentPara) { ... continue; }
StartParagraph ==
    /\ AtItem
    /\ ~IsSkipped(sorted[idx])
    /\ currentPara = Null
    /\ currentPara' = NewParagraph(sorted[idx])
    /\ lastItem' = sorted[idx]
    /\ idx' = idx + 1
    /\ UNCHANGED <<items, sorted, pc, paragraphs>>

\* if (sameStyle && ((isNextLine && alignedLeft) || sameLine)) { ... }
AppendItem ==
    /\ AtItem
    /\ ~IsSkipped(sorted[idx])
    /\ currentPara # Null
    /\ ShouldAppend(sorted[idx], currentPara, lastItem)
    /\ currentPara' = Appended(currentPara, sorted[idx], lastItem)
    /\ lastItem' = sorted[idx]
    /\ idx' = idx + 1
    /\ UNCHANGED <<items, sorted, pc, paragraphs>>

\* Defect variant of CloseParagraph: unshift in place of push.
CloseParagraphUnshift ==
    /\ AtItem
    /\ ~IsSkipped(sorted[idx])
    /\ currentPara # Null
    /\ ~ShouldAppend(sorted[idx], currentPara, lastItem)
    /\ paragraphs' = <<currentPara>> \o paragraphs
    /\ currentPara' = NewParagraph(sorted[idx])
    /\ lastItem' = sorted[idx]
    /\ idx' = idx + 1
    /\ UNCHANGED <<items, sorted, pc>>

\* Defect variant of CloseParagraph: lastItem not assigned when a paragraph is
\* started after another.
CloseParagraphStaleLast ==
    /\ AtItem
    /\ ~IsSkipped(sorted[idx])
    /\ currentPara # Null
    /\ ~ShouldAppend(sorted[idx], currentPara, lastItem)
    /\ paragraphs' = Append(paragraphs, currentPara)
    /\ currentPara' = NewParagraph(sorted[idx])
    /\ idx' = idx + 1
    /\ UNCHANGED <<items, sorted, pc, lastItem>>

\* Defect variant of CloseParagraph: the open paragraph's object is pushed and
\* then overwritten with the new run's fields instead of being replaced.
CloseParagraphReuse ==
    /\ AtItem
    /\ ~IsSkipped(sorted[idx])
    /\ currentPara # Null
    /\ ~ShouldAppend(sorted[idx], currentPara, lastItem)
    /\ paragraphs' = Append(paragraphs, NewParagraph(sorted[idx]))
    /\ currentPara' = NewParagraph(sorted[idx])
    /\ lastItem' = sorted[idx]
    /\ idx' = idx + 1
    /\ UNCHANGED <<items, sorted, pc>>

\* else { paragraphs.push(currentPara); currentPara = {...}; lastItem = item; }
CloseParagraph ==
    /\ AtItem
    /\ ~IsSkipped(sorted[idx])
    /\ currentPara # Null
    /\ ~ShouldAppend(sorted[idx], currentPara, lastItem)
    /\ paragraphs' = Append(paragraphs, currentPara)
    /\ currentPara' = NewParagraph(sorted[idx])
    /\ lastItem' = sorted[idx]
    /\ idx' = idx + 1
    /\ UNCHANGED <<items, sorted, pc>>

\* Defect variant of ReturnParagraphs: the push after the loop forgotten.
ReturnParagraphsNoPush ==
    /\ pc = "loop"
    /\ idx > Len(sorted)
    /\ pc' = "done"
    /\ UNCHANGED <<items, sorted, idx, paragraphs, currentPara, lastItem>>

\* Defect variant of ReturnParagraphs: the push after the loop unguarded.
ReturnParagraphsAlwaysPush ==
    /\ pc = "loop"
    /\ idx > Len(sorted)
    /\ paragraphs' = Append(paragraphs, currentPara)
    /\ pc' = "done"
    /\ UNCHANGED <<items, sorted, idx, currentPara, lastItem>>

\* if (currentPara) { paragraphs.push(currentPara); } return paragraphs;
ReturnParagraphs ==
    /\ pc = "loop"
    /\ idx > Len(sorted)
    /\ paragraphs' = IF currentPara # Null
                     THEN Append(paragraphs, currentPara)
                     ELSE paragraphs
    /\ pc' = "done"
    /\ UNCHANGED <<items, sorted, idx, currentPara, lastItem>>

\* a step of the running call touches neither the record of an earlier call
\* nor the activation of another call
Private == UNCHANGED <<earlier, other, app, processor, plugin>>

Next ==
    \/ ReturnEmpty /\ Private
    \/ SortItems /\ Private
    \/ SkipItem /\ Private
    \/ StartParagraph /\ Private
    \/ AppendItem /\ Private
    \/ CloseParagraph /\ Private
    \/ ReturnParagraphs /\ Private

Spec == Init /\ [][Next]_vars

\* a call on an array of runs of the geometry pool
InitRun ==
    /\ Init
    /\ \A k \in 1..Len(items) : [items[k] EXCEPT !.id = 0] \in PoolGeom

\* groupTextItems is synchronous: once called it runs until it returns.
SpecRun == InitRun /\ [][Next]_vars /\ WF_vars(Next)

-----------------------------------------------------------------------------
(* Vocabulary of the properties *)

RECURSIVE Flatten(_)
Flatten(ss) == IF ss = <<>> THEN <<>> ELSE Head(ss) \o Flatten(Tail(ss))

\* the ids of the runs of a paragraph, line after line
RunsOf(para) == Flatten(para.lines)

\* the paragraphs assembled so far: the closed ones, then the open one
Assembled ==
    paragraphs \o (IF pc = "loop" /\ currentPara # Null THEN <<currentPara>> ELSE <<>>)

\* the run ids of a sequence of paragraphs, paragraph after paragraph
RunsOfAll(paras) == Flatten([p \in 1..Len(paras) |-> RunsOf(paras[p])])

\* a text that is non-empty after trimming
HasInk(str) == \E c \in 1..Len(str) : str[c] \notin WhiteSpace

Occurrences(seq, v) == Cardinality({j \in 1..Len(seq) : seq[j] = v})

InkedItems == {k \in 1..Len(items) : HasInk(items[k].str)}

\* the ids of the non-whitespace runs in ordering-stage order
RECURSIVE InkedIds(_)
InkedIds(seq) ==
    IF seq = <<>> THEN <<>>
    ELSE (IF HasInk(Head(seq).str) THEN <<Head(seq).id>> ELSE <<>>)
             \o InkedIds(Tail(seq))

----------------------------------------------------------------------------
\* Two calls in a row on the same array.

\* The caller keeps what the first call returned and calls groupTextItems
\* again with the same array.  The model's variables still hold what the
\* first activation left in its locals; the second activation's declarations
\* (SortItems) are what replaces them.
CallAgain ==
    /\ pc = "done"
    /\ earlier = Null
    /\ earlier' = [sorted |-> sorted, paragraphs |-> paragraphs]
    /\ pc' = "start"
    /\ UNCHANGED <<items, sorted, idx, paragraphs, currentPara, lastItem, other,
                   app, processor, plugin>>

\* Array.prototype.sort is a deterministic algorithm: the same engine given
\* the same array and the same comparator returns the same arrangement, also
\* where the comparator leaves the engine a choice.
SameArrangement == earlier # Null => sorted' = earlier.sorted

NextTwice ==
    \/ ReturnEmpty /\ Private
    \/ SortItems /\ SameArrangement /\ Private
    \/ SkipItem /\ Private
    \/ StartParagraph /\ Private
    \/ AppendItem /\ Private
    \/ CloseParagraph /\ Private
    \/ ReturnParagraphs /\ Private
    \/ CallAgain

SpecTwice == Init /\ [][NextTwice]_vars

----------------------------------------------------------------------------
\* Two calls at once, one per page, taking turns.

\* the runs of the pages: two lines of a column, which merge in reading order
\* and split in the opposite order, and a whitespace-only run
PoolPage ==
    { BaseRun(StrA, 0, 8, Undefined), BaseRun(StrA, 0, 4, Undefined),
      BaseRun(StrBlank, 10, 8, Undefined) }

\* The activation that is running, as it is put aside: the argument and every
\* local of groupTextItems.  preempted is history: the pages whose call has
\* been put aside inside its loop.
Activation(name, preempted) ==
    [name |-> name, items |-> items, sorted |-> sorted, pc |-> pc,
     idx |-> idx, paragraphs |-> paragraphs, currentPara |-> currentPara,
     lastItem |-> lastItem, preempted |-> preempted]

Running == IF other.name = "page1" THEN "page2" ELSE "page1"

InitPages ==
    /\ \E n \in 0..MaxLen : \E s \in [1..n -> PoolPage] :
          items = [k \in 1..n |-> [s[k] EXCEPT !.id = k]]
    /\ sorted = <<>>
    /\ pc = "start"
    /\ idx = 1
    /\ paragraphs = <<>>
    /\ currentPara = Null
    /\ lastItem = Null
    /\ earlier = Null
    /\ app = Null
    /\ processor = Null
    /\ plugin = Null
    /\ \E n \in 0..(MaxLen - 1) : \E s \in [1..n -> PoolPage] :
          other = [name |-> "page2",
                   items |-> [k \in 1..n |-> [s[k] EXCEPT !.id = k]],
                   sorted |-> <<>>, pc |-> "start", idx |-> 1,
                   paragraphs |-> <<>>, currentPara |-> Null,
                   lastItem |-> Null, preempted |-> {}]

\* Defect variant of Switch: lastItem declared outside the function, so that
\* the two calls share it.
SwitchSharedLast ==
    /\ other # Null
    /\ other.pc # "done"
    /\ other' = Activation(Running,
                  other.preempted \cup (IF pc = "loop" THEN {Running} ELSE {}))
    /\ items' = other.items
    /\ sorted' = other.sorted
    /\ pc' = other.pc
    /\ idx' = other.idx
    /\ paragraphs' = other.paragraphs
    /\ currentPara' = other.currentPara
    /\ UNCHANGED <<lastItem, earlier, app, processor, plugin>>

\* The call that is running is put aside after any of its steps and the other
\* call goes on where it was.  Each call has its own items, sorted, iterator,
\* paragraphs, currentPara and lastItem.
Switch ==
    /\ other # Null
    /\ other.pc # "done"
    /\ other' = Activation(Running,
                  other.preempted \cup (IF pc = "loop" THEN {Running} ELSE {}))
    /\ items' = other.items
    /\ sorted' = other.sorted
    /\ pc' = other.pc
    /\ idx' = other.idx
    /\ paragraphs' = other.paragraphs
    /\ currentPara' = other.currentPara
    /\ lastItem' = other.lastItem
    /\ UNCHANGED <<earlier, app, processor, plugin>>

NextPages ==
    \/ ReturnEmpty /\ Private
    \/ SortItems /\ Private
    \/ SkipItem /\ Private
    \/ StartParagraph /\ Private
    \/ AppendItem /\ Private
    \/ CloseParagraph /\ Private
    \/ ReturnParagraphs /\ Private
    \/ Switch

SpecPages == InitPages /\ [][NextPages]_vars

----------------------------------------------------------------------------
\* App (src/unnamed/part_000, lines 144-193): the import dialog.

\* most pages of a document
MaxPages == 3

\* most calls of handleImport in one behaviour
MaxImports == 3

\* the files the user can pick
Files == {[name |-> "a.pdf"], [name |-> "b.pdf"]}

\* useState('dropzone'), useState(null), and no handleImport call running.
\* await is where the handleImport call is suspended ("none" when no call is
\* running).  posted is the log of parent.postMessage for the import that is
\* running or ran last, resolved the page indices whose getPageData promise
\* has resolved in it, imports the number of handleImport calls so far, and
\* failed whether the catch block of that import has run.
InitApp ==
    /\ items = <<>>
    /\ sorted = <<>>
    /\ pc = "start"
    /\ idx = 1
    /\ paragraphs = <<>>
    /\ currentPara = Null
    /\ lastItem = Null
    /\ earlier = Null
    /\ other = Null
    /\ processor = Null
    /\ plugin = Null
    /\ app = [step |-> "dropzone", file |-> Null, await |-> "none",
              numPages |-> 0, i |-> 0, posted |-> <<>>, resolved |-> {},
              imports |-> 0, failed |-> FALSE]

\* nothing but the App changes
OnlyApp ==
    UNCHANGED <<items, sorted, pc, idx, paragraphs, currentPara, lastItem,
                earlier, other, processor, plugin>>

\* handleFileSelect, reachable while the Dropzone is rendered
handleFileSelect ==
    /\ app.step = "dropzone"
    /\ \E f \in Files : app' = [app EXCEPT !.file = f, !.step = "settings"]

\* handleCancel, reachable while ImportSettings is rendered
handleCancel ==
    /\ app.step = "settings"
    /\ app.file # Null
    /\ app' = [app EXCEPT !.file = Null, !.step = "dropzone"]

\* handleImport when no file is selected: if (!file) return;
handleImportWithoutFile ==
    /\ app.await = "none"
    /\ app.file = Null
    /\ app.imports < MaxImports
    /\ app' = [app EXCEPT !.imports = @ + 1]

\* handleImport up to its first await: setStep('processing') and
\* file.arrayBuffer()
handleImport ==
    /\ app.step = "settings"
    /\ app.await = "none"
    /\ app.file # Null
    /\ app.imports < MaxImports
    /\ app' = [app EXCEPT !.step = "processing", !.await = "arrayBuffer",
                          !.numPages = 0, !.i = 0, !.posted = <<>>,
                          !.resolved = {}, !.imports = @ + 1,
                          !.failed = FALSE]

\* file.arrayBuffer() resolves: new PDFProcessor(), processor.load(arrayBuffer)
ArrayBufferResolves ==
    /\ app.await = "arrayBuffer"
    /\ app' = [app EXCEPT !.await = "load"]

\* processor.load resolves with numPages; the loop calls getPageData(0)
LoadResolves ==
    /\ app.await = "load"
    /\ \E n \in 1..MaxPages :
          app' = [app EXCEPT !.numPages = n, !.i = 0, !.await = "getPageData"]

\* Defect variant of GetPageDataResolves: the loop condition written as
\* i < numPages - 1.
GetPageDataResolvesOneShort ==
    /\ app.await = "getPageData"
    /\ IF app.i + 1 < app.numPages
       THEN app' = [app EXCEPT
                !.resolved = @ \cup {app.i},
                !.posted = Append(@, [type |-> "create-page", index |-> app.i,
                                      data |-> app.i]),
                !.i = @ + 1]
       ELSE app' = [app EXCEPT
                !.resolved = @ \cup {app.i},
                !.i = @ + 1, !.await = "none", !.step = "complete"]

\* getPageData(i) resolves: the message of page i is posted, then either
\* getPageData(i + 1) is called or the loop ends and setStep('complete')
GetPageDataResolves ==
    /\ app.await = "getPageData"
    /\ IF app.i + 1 < app.numPages
       THEN app' = [app EXCEPT
                !.resolved = @ \cup {app.i},
                !.posted = Append(@, [type |-> "create-page", index |-> app.i,
                                      data |-> app.i]),
                !.i = @ + 1]
       ELSE app' = [app EXCEPT
                !.resolved = @ \cup {app.i},
                !.posted = Append(@, [type |-> "create-page", index |-> app.i,
                                      data |-> app.i]),
                !.i = @ + 1, !.await = "none", !.step = "complete"]

\* Defect variant of AwaitRejects: the catch block without setStep('settings').
AwaitRejectsStaysProcessing ==
    /\ app.await # "none"
    /\ app' = [app EXCEPT !.await = "none", !.failed = TRUE]

\* the promise awaited (arrayBuffer, load or getPageData) rejects: the catch
\* block runs, alert(...) and setStep('settings')
AwaitRejects ==
    /\ app.await # "none"
    /\ app' = [app EXCEPT !.await = "none", !.step = "settings",
                          !.failed = TRUE]

\* the Import Another button: setStep('dropzone')
ImportAnother ==
    /\ app.step = "complete"
    /\ app' = [app EXCEPT !.step = "dropzone"]

NextApp ==
    \/ handleFileSelect /\ OnlyApp
    \/ handleCancel /\ OnlyApp
    \/ handleImportWithoutFile /\ OnlyApp
    \/ handleImport /\ OnlyApp
    \/ ArrayBufferResolves /\ OnlyApp
    \/ LoadResolves /\ OnlyApp
    \/ GetPageDataResolves /\ OnlyApp
    \/ AwaitRejects /\ OnlyApp
    \/ ImportAnother /\ OnlyApp

SpecApp == InitApp /\ [][NextApp]_vars

----------------------------------------------------------------------------
\* PDFProcessor (src/unnamed/part_002, lines 32-54 and 646-648; the guard
\* also at src/src/ui/worker/pdf-processor.ts, lines 19-29).

\* most getPageData calls in one behaviour
MaxCalls == 3

Calls == 1..MaxCalls

\* the function console.warn is bound to before any call
NativeWarn == [fn |-> "native", by |-> 0]

\* the arrow function call c installs as console.warn
PatchOf(c) == [fn |-> "patch", by |-> c]

\* a local that has not been assigned
Unassigned == [fn |-> "unassigned", by |-> 0]

\* private pdf = null; no load under way and none failed (loadFailed is
\* history); console.warn as the host set it;
\* no getPageData call made.  Of a call, at is where it stands ("new",
\* "running" when suspended inside the try block, "returned", "threw"),
\* originalWarn its local of that name, error the message it threw with, and
\* touched whether it went past the guard to the document.
InitProcessor ==
    /\ items = <<>>
    /\ sorted = <<>>
    /\ pc = "start"
    /\ idx = 1
    /\ paragraphs = <<>>
    /\ currentPara = Null
    /\ lastItem = Null
    /\ earlier = Null
    /\ other = Null
    /\ app = Null
    /\ plugin = Null
    /\ processor =
          [pdf |-> "null", loading |-> FALSE, loadFailed |-> FALSE,
           warn |-> NativeWarn,
           calls |-> [c \in Calls |->
                         [at |-> "new", originalWarn |-> Unassigned,
                          error |-> "none", touched |-> FALSE]]]

\* nothing but the processor and console changes
OnlyProcessor ==
    UNCHANGED <<items, sorted, pc, idx, paragraphs, currentPara, lastItem,
                earlier, other, app, plugin>>

\* load(data) up to its await
LoadCalled ==
    /\ ~processor.loading
    /\ processor.pdf = "null"
    /\ processor' = [processor EXCEPT !.loading = TRUE]

\* loadingTask.promise resolves: this.pdf = the document
LoadCompletes ==
    /\ processor.loading
    /\ processor' = [processor EXCEPT !.loading = FALSE, !.pdf = "document"]

\* loadingTask.promise rejects: this.pdf is not assigned
LoadFails ==
    /\ processor.loading
    /\ processor' = [processor EXCEPT !.loading = FALSE, !.loadFailed = TRUE]

\* Defect variant of GetPageDataCalled: the guard at the top left out, so that
\* the call patches console.warn and fails on this.pdf.getPage.
GetPageDataCalledUnguarded ==
    \E c \in Calls :
        /\ processor.calls[c].at = "new"
        /\ \A b \in 1..(c - 1) : processor.calls[b].at # "new"
        /\ IF processor.pdf = "null"
           THEN processor' = [processor EXCEPT
                    !.calls[c].at = "threw",
                    !.calls[c].originalWarn = processor.warn,
                    !.calls[c].touched = TRUE,
                    !.calls[c].error = "TypeError"]
           ELSE processor' = [processor EXCEPT
                    !.calls[c].at = "running",
                    !.calls[c].originalWarn = processor.warn,
                    !.calls[c].touched = TRUE,
                    !.warn = PatchOf(c)]

\* getPageData(pageIndex) up to its first await: the guard, the patch of
\* console.warn, this.pdf.getPage(pageIndex + 1)
GetPageDataCalled ==
    \E c \in Calls :
        /\ processor.calls[c].at = "new"
        /\ \A b \in 1..(c - 1) : processor.calls[b].at # "new"
        /\ IF processor.pdf = "null"
           THEN processor' = [processor EXCEPT
                    !.calls[c].at = "threw",
                    !.calls[c].error = "PDF not loaded"]
           ELSE processor' = [processor EXCEPT
                    !.calls[c].at = "running",
                    !.calls[c].originalWarn = processor.warn,
                    !.calls[c].touched = TRUE,
                    !.warn = PatchOf(c)]

\* a call reaches its return statement; finally { console.warn = originalWarn }
GetPageDataReturns ==
    \E c \in Calls :
        /\ processor.calls[c].at = "running"
        /\ processor' = [processor EXCEPT
                !.calls[c].at = "returned",
                !.warn = processor.calls[c].originalWarn]

\* an awaited promise outside the inner try blocks rejects (getPage,
\* getTextContent); finally { console.warn = originalWarn }
GetPageDataThrows ==
    \E c \in Calls :
        /\ processor.calls[c].at = "running"
        /\ processor' = [processor EXCEPT
                !.calls[c].at = "threw",
                !.calls[c].error = "rejected",
                !.warn = processor.calls[c].originalWarn]

NextProcessor ==
    \/ LoadCalled /\ OnlyProcessor
    \/ LoadCompletes /\ OnlyProcessor
    \/ LoadFails /\ OnlyProcessor
    \/ GetPageDataCalled /\ OnlyProcessor
    \/ GetPageDataReturns /\ OnlyProcessor
    \/ GetPageDataThrows /\ OnlyProcessor

SpecProcessor == InitProcessor /\ [][NextProcessor]_vars

(***************************************************************************)
(* The plugin controller: figma.ui.onmessage for create-page messages      *)
(* (src/src/ui/worker/paragraph-grouper.ts, lines 155-577).                *)
(*                                                                         *)
(* The handler has no await of its own.  It makes a frame, calls           *)
(* processItems, which runs up to its first await (a font load), attaches  *)
(* the catch and appends the frame to the current page: all of that is one *)
(* step, CreatePage.  Every later step is the continuation of one          *)
(* processItems after one font load has settled; the continuation after    *)
(* the last font load runs the text loop to its end, there being no await  *)
(* in it.  The messages carry no extracted images.  The native vectors of  *)
(* lines 286-332 reach no frame: line 326 appends each to vectorGroup,     *)
(* which is declared nowhere, inside a try block that logs the error.      *)
(* What the Figma API does is not in the source: each createNodeFromSvg,   *)
(* each loadFontAsync and the text loop either work or throw.  The locals  *)
(* of a processItems that has ended are no longer part of the state.       *)
(***************************************************************************)
MaxMessages == 2

Messages == 1..MaxMessages

\* msg.data of a create-page message: which of its optional members are
\* there, and how many paragraphs it has.  The messages of the model have a
\* background image exactly when they have no paragraph.
Datas ==
    {d \in [image : BOOLEAN, svg : BOOLEAN, svgSanitized : BOOLEAN,
            svgUltraSafe : BOOLEAN, items : 0..1] : d.image = (d.items = 0)}

\* one try block of the cascade: the pass and whether createNodeFromSvg and
\* appendChild went through
Attempt(pass, ok) == [pass |-> pass, ok |-> ok]

\* a cascade that goes on to the next pass after a pass that worked
CascadeTriesAll(data, works) ==
    (IF data.svg THEN <<Attempt("Hi-Fi", works[1])>> ELSE <<>>)
    \o (IF data.svg /\ data.svgSanitized
        THEN <<Attempt("Sanitized", works[2])>> ELSE <<>>)
    \o (IF data.svg /\ data.svgSanitized /\ data.svgUltraSafe
        THEN <<Attempt("Safe", works[3])>> ELSE <<>>)

\* the nested try/catch blocks of lines 211-242: the attempts made, in order
Cascade(data, works) ==
    IF ~data.svg THEN <<>>
    ELSE IF works[1] THEN <<Attempt("Hi-Fi", TRUE)>>
    ELSE <<Attempt("Hi-Fi", FALSE)>> \o
         (IF ~data.svgSanitized THEN <<>>
          ELSE IF works[2] THEN <<Attempt("Sanitized", TRUE)>>
          ELSE <<Attempt("Sanitized", FALSE)>> \o
               (IF ~data.svgUltraSafe THEN <<>>
                ELSE <<Attempt("Safe", works[3])>>))

\* what the cascade can come to for one message, createNodeFromSvg working
\* or throwing on each string
Cascades(data) == {Cascade(data, works) : works \in [1..3 -> BOOLEAN]}

\* a node made while message p was handled
Node(kind, p) == [kind |-> kind, page |-> p]

RECURSIVE SvgNodes(_, _)
\* the nodes the attempts that worked have appended
SvgNodes(tried, p) ==
    IF tried = <<>> THEN <<>>
    ELSE (IF Head(tried).ok
          THEN <<Node("Vector Graphics (" \o Head(tried).pass \o ")", p)>>
          ELSE <<>>) \o SvgNodes(Tail(tried), p)

\* one frame variable for all handlers: the frame made last
LatestFrame(pl, p) ==
    CHOOSE q \in Messages :
        /\ pl.pages[q].at # "new"
        /\ \A r \in Messages : pl.pages[r].at # "new" => r <= q

\* const frame of the handler of message p
FrameOf(pl, p) == pl.pages[p].frame

\* frame.appendChild(node)
AppendChild(pl, f, nodes) == [pl EXCEPT !.children[f] = @ \o nodes]

InitPlugin ==
    /\ items = <<>>
    /\ sorted = <<>>
    /\ pc = "start"
    /\ idx = 1
    /\ paragraphs = <<>>
    /\ currentPara = Null
    /\ lastItem = Null
    /\ earlier = Null
    /\ other = Null
    /\ app = Null
    /\ processor = Null
    /\ plugin =
          [pages |-> [p \in Messages |->
                         [at |-> "new", frame |-> 0, tried |-> <<>>,
                          awaits |-> 0, loadedFonts |-> FALSE,
                          items |-> 0]],
           children |-> [f \in Messages |-> <<>>],
           currentPage |-> <<>>]

\* nothing but the Figma document and the handlers changes
OnlyPlugin ==
    UNCHANGED <<items, sorted, pc, idx, paragraphs, currentPara, lastItem,
                earlier, other, app, processor>>

\* lines 435-572 for the paragraphs left, then the end of processItems:
\* every text node is appended to frame, or an assignment to the first
\* text node throws (throws = TRUE) and the catch of line 574 logs the
\* rejection
TextLoop(pl, p, throws) ==
    LET n == pl.pages[p].items
        ended == [pl EXCEPT !.pages[p].awaits = 0,
                            !.pages[p].loadedFonts = FALSE,
                            !.pages[p].items = 0]
    IN
    IF n > 0 /\ throws
    THEN [ended EXCEPT !.pages[p].at = "rejected"]
    ELSE [AppendChild(ended, FrameOf(pl, p),
                      [k \in 1..n |-> Node("text", p)])
             EXCEPT !.pages[p].at = "done"]

\* processItems of message p goes on after an await of loadFontSafe;
\* loaded is the new value of loadedFonts
Continue(pl, p, loaded, throws) ==
    LET q == [pl EXCEPT !.pages[p].awaits = @ - 1,
                        !.pages[p].loadedFonts = loaded] IN
    IF q.pages[p].awaits = 0 THEN TextLoop(q, p, throws) ELSE q

\* figma.ui.onmessage({type: 'create-page', index: p - 1, data}), lines
\* 169-576
CreatePage ==
    \E p \in Messages, data \in Datas :
      \E tried \in Cascades(data) :
        /\ plugin.pages[p].at = "new"
        /\ \A q \in Messages : q < p => plugin.pages[q].at # "new"
        /\ LET made == [plugin EXCEPT
                           !.pages[p] =
                               [at |-> "fonts", frame |-> p,
                                tried |-> tried,
                                awaits |-> (IF data.items > 0 THEN 2 ELSE 1),
                                loadedFonts |-> FALSE,
                                items |-> data.items],
                           !.currentPage = Append(@, p)]
           IN plugin' =
                 AppendChild(made, FrameOf(made, p),
                             (IF data.image
                              THEN <<Node("Page Image (Background)", p)>>
                              ELSE <<>>) \o SvgNodes(tried, p))

\* figma.loadFontAsync resolves (line 414): the font is added to loadedFonts
FontLoadResolves ==
    \E p \in Messages, throws \in BOOLEAN :
        /\ plugin.pages[p].at = "fonts"
        /\ ~plugin.pages[p].loadedFonts
        /\ plugin' = Continue(plugin, p, TRUE, throws)

\* figma.loadFontAsync rejects: loadFontSafe returns false (lines 417-420)
FontLoadRejects ==
    \E p \in Messages, throws \in BOOLEAN :
        /\ plugin.pages[p].at = "fonts"
        /\ ~plugin.pages[p].loadedFonts
        /\ plugin' = Continue(plugin, p, FALSE, throws)

\* loadFontSafe returns true at once, the font being in loadedFonts (line
\* 412); the await of line 429 still gives way to the other handlers
FontAlreadyLoaded ==
    \E p \in Messages, throws \in BOOLEAN :
        /\ plugin.pages[p].at = "fonts"
        /\ plugin.pages[p].loadedFonts
        /\ plugin' = Continue(plugin, p, TRUE, throws)

NextPlugin ==
    \/ CreatePage /\ OnlyPlugin
    \/ FontLoadResolves /\ OnlyPlugin
    \/ FontLoadRejects /\ OnlyPlugin
    \/ FontAlreadyLoaded /\ OnlyPlugin

SpecPlugin == InitPlugin /\ [][NextPlugin]_vars

-----------------------------------------------------------------------------
(* Properties *)

\* C1: when groupTextItems returns, every run whose text is non-empty after
\* trimming occurs exactly once among the runs of the returned paragraphs:
\* none is dropped (the open paragraph is pushed at the end) and none is
\* contributed twice.
C1_EveryRunExactlyOnce ==
    pc = "done" =>
        \A k \in InkedItems : Occurrences(RunsOfAll(paragraphs), k) = 1

\* C1 happens: a call returned two paragraphs, one of them holding two runs.
C1_Witness ==
    /\ pc = "done"
    /\ Len(paragraphs) = 2
    /\ \E p \in 1..2 : Len(RunsOf(paragraphs[p])) = 2

\* C2: the loop step taken on a run whose text is empty or whitespace-only
\* leaves the output list, the open paragraph and the last accepted run as
\* they were.
C2_WhitespaceRunChangesNothing ==
    [][(AtItem /\ ~HasInk(sorted[idx].str))
          => UNCHANGED <<paragraphs, currentPara, lastItem>>]_vars

\* C2 happens: a whitespace-only run has just been passed over while a
\* paragraph was open, and runs remain.
C2_Witness ==
    /\ AtItem
    /\ idx > 1
    /\ ~HasInk(sorted[idx - 1].str)
    /\ currentPara # Null

\* C3: no paragraph holds two consecutive accepted runs that both carry a
\* semanticGroupId and whose ids differ.
C3_SemanticVeto ==
    \A p \in 1..Len(Assembled) :
        LET runs == RunsOf(Assembled[p])
        IN  \A j \in 1..(Len(runs) - 1) :
                LET last == items[runs[j]]
                    r == items[runs[j + 1]]
                IN  ~ /\ last.semanticGroupId # Undefined
                      /\ r.semanticGroupId # Undefined
                      /\ r.semanticGroupId # last.semanticGroupId

\* C4: no line of a paragraph holds a run r next to the run last accepted
\* before it when the gap r.x - (last.x + last.width) exceeds the wide-gap
\* threshold.  The threshold is read in the way most favourable to the
\* claim: the gap has to exceed both r.fontSize * 3 and the fixed 100.
C4_WideGapSplits ==
    \A p \in 1..Len(Assembled) :
        \A l \in 1..Len(Assembled[p].lines) :
            LET line == Assembled[p].lines[l]
            IN  \A j \in 1..(Len(line) - 1) :
                    LET last == items[line[j]]
                        r == items[line[j + 1]]
                        gap == r.x - (last.x + last.width)
                    IN  ~(gap > r.fontSize * 3 /\ gap > 100 * Den)

\* C5: every run of a paragraph has the fontFamily, fontWeight, fontStyle and
\* color of the paragraph's first run, and a fontSize less than 1 away from
\* the first run's.
C5_RunsShareFirstRunStyle ==
    \A p \in 1..Len(Assembled) :
        LET runs == RunsOf(Assembled[p])
            first == items[runs[1]]
        IN  \A j \in 1..Len(runs) :
                LET r == items[runs[j]]
                IN  /\ r.fontFamily = first.fontFamily
                    /\ r.fontWeight = first.fontWeight
                    /\ r.fontStyle = first.fontStyle
                    /\ r.color = first.color
                    /\ Abs(r.fontSize - first.fontSize) < 1 * Den

\* C5 happens: a call returned a paragraph of two runs whose font sizes
\* differ, and another paragraph whose first run differs from the first
\* paragraph's in colour alone.
C5_Witness ==
    /\ pc = "done"
    /\ Len(paragraphs) = 2
    /\ Len(RunsOf(paragraphs[1])) = 2
    /\ items[RunsOf(paragraphs[1])[1]].fontSize
           # items[RunsOf(paragraphs[1])[2]].fontSize
    /\ LET a == items[RunsOf(paragraphs[1])[1]]
           b == items[RunsOf(paragraphs[2])[1]]
       IN  /\ a.color # b.color
           /\ [b EXCEPT !.color = a.color, !.id = a.id] = a

\* C6: in the ordering stage's output, of two runs whose y differ by more
\* than 5 the one with the larger y comes first.
C6_TopToBottom ==
    pc # "start" =>
        \A i, j \in 1..Len(sorted) :
            sorted[i].y - sorted[j].y > 5 * Den => i < j

\* C7: in the ordering stage's output, of two runs whose y differ by at most
\* 5 the one with the smaller x comes first.
C7_LeftToRightInBand ==
    pc # "start" =>
        \A i, j \in 1..Len(sorted) :
            (Abs(sorted[i].y - sorted[j].y) <= 5 * Den /\ sorted[i].x < sorted[j].x)
                => i < j

\* C8: on the runs of the input, "sorts before" (a negative result of the
\* compare function) is antisymmetric and transitive.
C8_ComparatorIsOrder ==
    \A i, j, k \in 1..Len(items) :
        /\ ~(cmp(items[i], items[j]) < 0 /\ cmp(items[j], items[i]) < 0)
        /\ (cmp(items[i], items[j]) < 0 /\ cmp(items[j], items[k]) < 0
               => cmp(items[i], items[k]) < 0)

\* C9: when groupTextItems returns, the runs of the returned paragraphs,
\* paragraph after paragraph and line after line, are exactly the
\* non-whitespace runs of the ordering stage's output, in its order.
C9_OutputIsFilteredOrder ==
    pc = "done" => RunsOfAll(paragraphs) = InkedIds(sorted)

\* C9 happens: a call whose sort moved the first run of the input returned
\* three paragraphs.
C9_Witness ==
    /\ pc = "done"
    /\ Len(paragraphs) = 3
    /\ sorted[1].id # 1

\* C10: when groupTextItems returns, the number of paragraphs is at least 1
\* if the input has a non-whitespace run, at most the number of
\* non-whitespace runs, and so 0 when every run is whitespace-only.
C10_ParagraphCount ==
    pc = "done" =>
        /\ (InkedItems # {} => Len(paragraphs) >= 1)
        /\ Len(paragraphs) <= Cardinality(InkedItems)

\* C10 happens: a call on an input holding a whitespace-only run and two
\* other runs returned one paragraph.
C10_Witness ==
    /\ pc = "done"
    /\ Cardinality(InkedItems) = 2
    /\ Len(items) = 3
    /\ Len(paragraphs) = 1

\* C11: the step groupTextItems takes on an empty array is its return, with
\* an empty list of paragraphs: nothing is sorted, no item is visited and no
\* paragraph is opened.
C11_EmptyInputReturnsEmpty ==
    [][(pc = "start" /\ Len(items) = 0)
          => /\ pc' = "done"
             /\ paragraphs' = <<>>
             /\ UNCHANGED <<sorted, idx, currentPara, lastItem>>]_vars

\* C11 happens: a call on the empty array has returned.
C11_Witness ==
    /\ pc = "done"
    /\ Len(items) = 0
    /\ paragraphs = <<>>

\* C14: no step of groupTextItems changes the caller's array or a run in it,
\* and once sorted the copy is only read.
C14_InputUnchanged ==
    [][/\ items' = items
       /\ (pc = "loop" => sorted' = sorted)]_vars

\* C14 happens: a call whose sort arranged the copy differently from the
\* caller's array, and which merged two runs, has returned.
C14_Witness ==
    /\ pc = "done"
    /\ sorted # items
    /\ \E p \in 1..Len(paragraphs) : Len(RunsOf(paragraphs[p])) >= 2

\* C12: when groupTextItems is called a second time on the same array, the
\* second call returns what the first call returned, whatever the first call
\* left behind.
C12_SameInputSameOutput ==
    (earlier # Null /\ pc = "done") => paragraphs = earlier.paragraphs

\* C12 happens: the second call has returned, with more than one paragraph
\* and with runs merged.
C12_Witness ==
    /\ earlier # Null
    /\ pc = "done"
    /\ Len(paragraphs) >= 2
    /\ \E p \in 1..Len(paragraphs) : Len(RunsOf(paragraphs[p])) >= 2

\* what the loop of groupTextItems has built after the first k runs of a
\* sorted array when nothing else runs
RECURSIVE Alone(_, _)
Alone(srt, k) ==
    IF k = 0
    THEN [paragraphs |-> <<>>, currentPara |-> Null, lastItem |-> Null]
    ELSE LET s == Alone(srt, k - 1)
             item == srt[k]
         IN  IF ~HasInk(item.str) THEN s
             ELSE IF s.currentPara = Null
             THEN [s EXCEPT !.currentPara = NewParagraph(item),
                            !.lastItem = item]
             ELSE IF ShouldAppend(item, s.currentPara, s.lastItem)
             THEN [s EXCEPT !.currentPara = Appended(@, item, s.lastItem),
                            !.lastItem = item]
             ELSE [paragraphs |-> Append(s.paragraphs, s.currentPara),
                   currentPara |-> NewParagraph(item),
                   lastItem |-> item]

\* what groupTextItems returns for a sorted array when nothing else runs
AloneResult(srt) ==
    LET s == Alone(srt, Len(srt))
    IN  IF s.currentPara = Null THEN s.paragraphs
        ELSE Append(s.paragraphs, s.currentPara)

\* C13: of two calls taking turns on the arrays of two pages, each returns
\* what it returns when it runs alone, however their steps interleave.
C13_NoInterference ==
    /\ pc = "done" => paragraphs = AloneResult(sorted)
    /\ (other # Null /\ other.pc = "done")
          => other.paragraphs = AloneResult(other.sorted)

\* C13 happens: both calls have returned paragraphs, one of them with runs
\* merged, and each was put aside inside its loop while the other ran.
C13_Witness ==
    /\ other # Null
    /\ pc = "done"
    /\ other.pc = "done"
    /\ other.preempted = {"page1", "page2"}
    /\ Len(paragraphs) >= 1
    /\ Len(other.paragraphs) >= 1
    /\ \E p \in 1..Len(paragraphs) : Len(RunsOf(paragraphs[p])) >= 2

\* the texts of the runs of a paragraph, in order
StrsOf(para) == [k \in 1..Len(RunsOf(para)) |-> items[RunsOf(para)[k]].str]

\* the first k texts put together: the first as it is, each later one after a
\* space unless it begins with a character of noJoin
RECURSIVE Joined(_, _, _)
Joined(strs, k, noJoin) ==
    IF k = 0 THEN <<>>
    ELSE IF k = 1 THEN strs[1]
    ELSE Joined(strs, k - 1, noJoin)
            \o (IF strs[k] # <<>> /\ strs[k][1] \in noJoin THEN <<>> ELSE <<" ">>)
            \o strs[k]

\* C15 as stated: every paragraph's text is the texts of its runs in order,
\* each merged run after one inserted space unless its text begins with
\* whitespace.
C15_JoinUnlessWhitespace ==
    \A p \in 1..Len(Assembled) :
        Assembled[p].text
            = Joined(StrsOf(Assembled[p]), Len(StrsOf(Assembled[p])), WhiteSpace)

\* C15 amended: every paragraph's text is the texts of its runs in order, each
\* merged run after one inserted space unless its text begins with the space
\* character; a run that begins with a tab or a line break gets the space too.
C15_JoinUnlessSpace ==
    \A p \in 1..Len(Assembled) :
        Assembled[p].text
            = Joined(StrsOf(Assembled[p]), Len(StrsOf(Assembled[p])), {" "})

\* C15 happens: a returned paragraph holds a merged run that begins with a
\* space and a merged run that begins with a line break.
C15_Witness ==
    /\ pc = "done"
    /\ \E p \in 1..Len(paragraphs) :
          LET strs == StrsOf(paragraphs[p])
          IN  \A c \in {" ", "\n"} :
                  \E k \in 2..Len(strs) : strs[k][1] = c

\* C16: a paragraph's text holds as many line breaks as the texts of its runs
\* hold together: no merge, on the same line or as a new line, adds one.
C16_NoLineBreakInserted ==
    \A p \in 1..Len(Assembled) :
        Occurrences(Assembled[p].text, "\n")
            = Occurrences(Flatten(StrsOf(Assembled[p])), "\n")

\* C16 happens: a returned paragraph has more than one line and no line break
\* in its text.
C16_Witness ==
    /\ pc = "done"
    /\ \E p \in 1..Len(paragraphs) :
          /\ Len(paragraphs[p].lines) >= 2
          /\ Occurrences(paragraphs[p].text, "\n") = 0

\* C17: every paragraph, open or closed, has the x and y of its first run and
\* the fontSize, fontFamily, fontWeight, fontStyle and color of its first run,
\* whatever has been merged into it since.
C17_OriginAndStyleOfFirstRun ==
    \A p \in 1..Len(Assembled) :
        LET para == Assembled[p]
            head == items[RunsOf(para)[1]]
        IN  /\ para.x = head.x
            /\ para.y = head.y
            /\ para.fontSize = head.fontSize
            /\ para.fontFamily = head.fontFamily
            /\ para.fontWeight = head.fontWeight
            /\ para.fontStyle = head.fontStyle
            /\ para.color = head.color

\* C17 happens: a returned paragraph holds a merged run whose x and y both
\* differ from the paragraph's.
C17_Witness ==
    /\ pc = "done"
    /\ \E p \in 1..Len(paragraphs) :
          \E k \in 2..Len(RunsOf(paragraphs[p])) :
              /\ items[RunsOf(paragraphs[p])[k]].x # paragraphs[p].x
              /\ items[RunsOf(paragraphs[p])[k]].y # paragraphs[p].y

\* the largest number of a non-empty finite set
Largest(S) == CHOOSE m \in S : \A n \in S : n <= m

RightEdge(run) == run.x + run.width

\* C18 as stated: every paragraph's width is the largest, over its lines, of
\* the right edge of the line's last run minus the paragraph's x, and no run
\* of the paragraph reaches beyond x + width.
C18_WidthIsRightEdgeExtent ==
    \A p \in 1..Len(Assembled) :
        LET para == Assembled[p]
        IN  /\ para.width
                 = Largest({RightEdge(items[para.lines[l][Len(para.lines[l])]])
                               - para.x : l \in 1..Len(para.lines)})
            /\ \A k \in 1..Len(RunsOf(para)) :
                   para.x + para.width >= RightEdge(items[RunsOf(para)[k]])

\* C18 amended: every paragraph's width is the largest, over its lines, of
\* the width of the line's first run and of the right edge minus the
\* paragraph's x of each later run of the line.  So x + width reaches the
\* right edge of every run that does not start a line, and falls short of the
\* right edge of a run that starts a line by less than 20.
C18_WidthIsRunningMax ==
    \A p \in 1..Len(Assembled) :
        LET para == Assembled[p]
            Extent(l, k) ==
                IF k = 1 THEN items[para.lines[l][1]].width
                ELSE RightEdge(items[para.lines[l][k]]) - para.x
        IN  /\ para.width
                 = Largest(UNION {{Extent(l, k) : k \in 1..Len(para.lines[l])}
                                     : l \in 1..Len(para.lines)})
            /\ \A l \in 1..Len(para.lines) : \A k \in 1..Len(para.lines[l]) :
                   LET run == items[para.lines[l][k]]
                   IN  IF k = 1
                       THEN RightEdge(run) - (para.x + para.width) < 20 * Den
                       ELSE para.x + para.width >= RightEdge(run)

\* C18 happens: a returned paragraph has a line of two runs and a later line
\* whose run reaches beyond the paragraph's x + width.
C18_Witness ==
    /\ pc = "done"
    /\ \E p \in 1..Len(paragraphs) :
          LET para == paragraphs[p]
          IN  /\ Len(para.lines) >= 2
              /\ Len(para.lines[1]) >= 2
              /\ RightEdge(items[para.lines[2][1]]) > para.x + para.width

\* the first run of line l of a paragraph, and the last
FirstOfLine(para, l) == items[para.lines[l][1]]
LastOfLine(para, l) == items[para.lines[l][Len(para.lines[l])]]

\* the differences between the baselines of the first runs of adjacent lines
\* that are positive, each with the line it starts from
PositiveDiffs(para) ==
    {<<l, FirstOfLine(para, l).y - FirstOfLine(para, l + 1).y>> :
        l \in {m \in 1..(Len(para.lines) - 1) :
                  FirstOfLine(para, m).y > FirstOfLine(para, m + 1).y}}

RECURSIVE SumOfDiffs(_)
SumOfDiffs(S) ==
    IF S = {} THEN 0
    ELSE LET d == CHOOSE e \in S : TRUE IN d[2] + SumOfDiffs(S \ {d})

\* C19: every returned paragraph of more than one line has a lineHeight that
\* is the mean of the positive differences between the baselines of the first
\* runs of adjacent lines, and no lineHeight when none is positive.
C19_LineHeightIsMeanBaselineGap ==
    pc = "done" =>
        \A p \in 1..Len(paragraphs) :
            LET para == paragraphs[p]
                diffs == PositiveDiffs(para)
            IN  Len(para.lines) > 1 =>
                    IF diffs = {} THEN para.lineHeight = Undefined
                    ELSE /\ para.lineHeight # Undefined
                         /\ para.lineHeight * Cardinality(diffs) = SumOfDiffs(diffs)

\* the alignment the specification gives a paragraph: CENTER is tried first,
\* then RIGHT, else LEFT.  Both tests are cleared of the division by 2 and
\* scaled to the grid.
Classify(para) ==
    LET L == 1..Len(para.lines)
        Left(l) == FirstOfLine(para, l).x
        Right(l) == RightEdge(LastOfLine(para, l))
        centered ==
            \A l \in L :
                Abs((para.width - (Right(l) - Left(l))) - 2 * (Left(l) - para.x))
                    <= 2 * 5 * Den
        flushRight ==
            \A l \in L : Abs((para.x + para.width) - Right(l)) <= 5 * Den
    IN  IF centered THEN "CENTER" ELSE IF flushRight THEN "RIGHT" ELSE "LEFT"

\* C20: every returned paragraph of more than one line has a textAlign, and
\* it is the alignment the specification's classification gives it.
C20_TextAlignClassified ==
    pc = "done" =>
        \A p \in 1..Len(paragraphs) :
            Len(paragraphs[p].lines) > 1 =>
                /\ "textAlign" \in DOMAIN paragraphs[p]
                /\ paragraphs[p].textAlign = Classify(paragraphs[p])

\* C21: every returned paragraph of a single line has no textAlign.
C21_SingleLineHasNoTextAlign ==
    pc = "done" =>
        \A p \in 1..Len(paragraphs) :
            Len(paragraphs[p].lines) = 1 => "textAlign" \notin DOMAIN paragraphs[p]

\* C21 happens: two single-line paragraphs at different x have been returned.
C21_Witness ==
    /\ pc = "done"
    /\ \E p, q \in 1..Len(paragraphs) :
          /\ Len(paragraphs[p].lines) = 1
          /\ Len(paragraphs[q].lines) = 1
          /\ paragraphs[p].x # paragraphs[q].x

\* C22: every call returns; until then each step of the loop moves the
\* iterator one run forward, and when a call on a non-empty array returns the
\* iterator has passed the last run.
C22_TerminatesInOnePass ==
    /\ [][(pc = "loop" /\ pc' = "loop") => idx' = idx + 1]_vars
    /\ [][(pc = "loop" /\ pc' = "done") => idx = Len(sorted) + 1]_vars
    /\ <>(pc = "done")

\* C22 happens: a call has returned after a pass over three runs, one of them
\* whitespace-only.
C22_Witness ==
    /\ pc = "done"
    /\ Len(sorted) >= 3
    /\ idx = Len(sorted) + 1
    /\ \E k \in 1..Len(sorted) : ~HasInk(sorted[k].str)

\* The loop is at a non-whitespace run r with a paragraph open.
AtRunWithOpenParagraph ==
    /\ pc = "loop"
    /\ idx <= Len(sorted)
    /\ currentPara # Null
    /\ HasInk(sorted[idx].str)

\* The step taken merges the run at the iterator into the open paragraph.
MergesRun ==
    /\ paragraphs' = paragraphs
    /\ RunsOf(currentPara') = Append(RunsOf(currentPara), sorted[idx].id)

\* The step taken pushes the open paragraph as it is and opens a paragraph
\* whose only run is the run at the iterator.
ClosesAndStarts ==
    /\ paragraphs' = Append(paragraphs, currentPara)
    /\ RunsOf(currentPara') = <<sorted[idx].id>>

\* the tests of the specification's merge decision, on the grid
IsCompatibleRun(r, current) ==
    /\ r.fontFamily = current.fontFamily
    /\ Abs(r.fontSize - current.fontSize) < 1 * Den
    /\ r.fontWeight = current.fontWeight
    /\ r.fontStyle = current.fontStyle
    /\ r.color = current.color

\* |r.y - last.y| < max(2, r.fontSize * 0.25)
WithinLineTolerance(r, last) ==
    \E tol \in {8 * Den, r.fontSize} :
        /\ tol >= 8 * Den
        /\ tol >= r.fontSize
        /\ 4 * Abs(r.y - last.y) < tol

\* r.x - (last.x + last.width) beyond r.fontSize * 3 and beyond 100
IsWideGap(r, last) ==
    /\ r.x - (last.x + last.width) > 3 * r.fontSize
    /\ r.x - (last.x + last.width) > 100 * Den

\* 0 < last.y - r.y < r.fontSize * 2.5
WithinNextLineGap(r, last) ==
    /\ last.y - r.y > 0
    /\ 2 * (last.y - r.y) < 5 * r.fontSize

\* |r.x - current.x| < 20
WithinLeftTolerance(r, current) ==
    /\ r.x - current.x < 20 * Den
    /\ current.x - r.x < 20 * Den

\* C23: with a paragraph open, a non-whitespace run is merged exactly when it
\* is (same-line, compatible, not across a wide gap) or (next-line, left
\* aligned, compatible); otherwise the open paragraph is pushed unchanged and
\* the run opens a new one.
C23_MergeDecision ==
    [][AtRunWithOpenParagraph =>
          LET r == sorted[idx]
          IN  IF \/ /\ WithinLineTolerance(r, lastItem)
                    /\ IsCompatibleRun(r, currentPara)
                    /\ ~IsWideGap(r, lastItem)
                 \/ /\ WithinNextLineGap(r, lastItem)
                    /\ WithinLeftTolerance(r, currentPara)
                    /\ IsCompatibleRun(r, currentPara)
              THEN MergesRun
              ELSE ClosesAndStarts]_vars

\* The step taken appends the run at the iterator to the line of the run
\* accepted before it.
JoinsLastLine ==
    /\ MergesRun
    /\ Len(currentPara'.lines) = Len(currentPara.lines)

\* The step taken appends the run at the iterator as a new line.
StartsNewLine ==
    /\ MergesRun
    /\ Len(currentPara'.lines) = Len(currentPara.lines) + 1

\* C24: a compatible run joins the line of the last accepted run exactly when
\* |r.y - last.y| < max(2, r.fontSize * 0.25), the comparison being strict.
C24_SameLineTolerance ==
    [][AtRunWithOpenParagraph =>
          (JoinsLastLine <=>
              /\ IsCompatibleRun(sorted[idx], currentPara)
              /\ WithinLineTolerance(sorted[idx], lastItem))]_vars

\* C24 happens: a 16-unit run 3 off the baseline of the run before it has
\* joined its line.
C24_Witness ==
    /\ pc = "done"
    /\ \E p \in 1..Len(paragraphs) : \E l \in 1..Len(paragraphs[p].lines) :
          \E k \in 1..(Len(paragraphs[p].lines[l]) - 1) :
              LET last == items[paragraphs[p].lines[l][k]]
                  r == items[paragraphs[p].lines[l][k + 1]]
              IN  /\ r.fontSize = 16 * Den
                  /\ Abs(r.y - last.y) = 3 * Den

\* C25: a run starts a new line of the open paragraph exactly when it is
\* compatible, not on the last run's line, 0 < last.y - r.y < r.fontSize * 2.5
\* and |r.x - current.x| < 20 with current.x the x of the paragraph's first
\* run.
C25_NextLineTest ==
    [][AtRunWithOpenParagraph =>
          (StartsNewLine <=>
              /\ IsCompatibleRun(sorted[idx], currentPara)
              /\ ~WithinLineTolerance(sorted[idx], lastItem)
              /\ WithinNextLineGap(sorted[idx], lastItem)
              /\ WithinLeftTolerance(sorted[idx], items[RunsOf(currentPara)[1]]))]_vars

\* C25 happens: a paragraph was returned whose second line is 19 below and 19
\* right of its first, and a run 19 further down and 19 further right, within
\* 20 of that second line but not of the paragraph, was kept out of it.
C25_Witness ==
    /\ pc = "done"
    /\ Len(paragraphs) = 2
    /\ Len(paragraphs[1].lines) = 2
    /\ LET head == items[paragraphs[1].lines[1][1]]
           second == items[paragraphs[1].lines[2][1]]
           third == items[RunsOf(paragraphs[2])[1]]
       IN  /\ head.y - second.y = 19 * Den
           /\ second.x - head.x = 19 * Den
           /\ second.y - third.y = 19 * Den
           /\ third.x - second.x = 19 * Den

\* C26: a step that merges run r into the last line leaves the paragraph with
\* the width max(previous width, (r.x + r.width) - paragraph.x), which is
\* never less than the previous width.
C26_SameLineWidth ==
    [][(AtRunWithOpenParagraph /\ JoinsLastLine) =>
          /\ currentPara'.width
               = Largest({currentPara.width,
                          RightEdge(sorted[idx]) - currentPara.x})
          /\ currentPara'.width >= currentPara.width]_vars

\* C26 happens: a returned one-line paragraph kept the width of its first run,
\* the run merged after it ending further left.
C26_Witness ==
    /\ pc = "done"
    /\ \E p \in 1..Len(paragraphs) :
          /\ Len(paragraphs[p].lines) = 1
          /\ Len(RunsOf(paragraphs[p])) = 2
          /\ paragraphs[p].width = items[RunsOf(paragraphs[p])[1]].width
          /\ paragraphs[p].width
               > RightEdge(items[RunsOf(paragraphs[p])[2]]) - paragraphs[p].x

\* C27: a step that merges run r as a new line leaves the paragraph with the
\* width max(previous width, r.width), whatever r.x is, which is never less
\* than the previous width.
C27_NewLineWidth ==
    [][(AtRunWithOpenParagraph /\ StartsNewLine) =>
          /\ currentPara'.width
               = Largest({currentPara.width, sorted[idx].width})
          /\ currentPara'.width >= currentPara.width]_vars

\* C27 happens: a returned paragraph of two lines has the width of its second
\* line's run, which starts right of the paragraph's x.
C27_Witness ==
    /\ pc = "done"
    /\ \E p \in 1..Len(paragraphs) :
          /\ Len(paragraphs[p].lines) = 2
          /\ LET head == items[paragraphs[p].lines[1][1]]
                 r == items[paragraphs[p].lines[2][1]]
             IN  /\ r.x > paragraphs[p].x
                 /\ r.width > head.width
                 /\ paragraphs[p].width = r.width

\* C28: in no paragraph does a run without a color stand with a run that has
\* one; and a run without a color that is on the last run's line and agrees
\* with the open paragraph in family, size, weight and style is merged into it
\* when the paragraph has no color either.
C28_UnsetColorIsAValue ==
    /\ [](\A p \in 1..Len(Assembled) : \A k \in 1..Len(RunsOf(Assembled[p])) :
              (items[RunsOf(Assembled[p])[k]].color = Undefined)
                  <=> (items[RunsOf(Assembled[p])[1]].color = Undefined))
    /\ [][(/\ AtRunWithOpenParagraph
           /\ sorted[idx].color = Undefined
           /\ currentPara.color = Undefined
           /\ sorted[idx].fontFamily = currentPara.fontFamily
           /\ sorted[idx].fontSize = currentPara.fontSize
           /\ sorted[idx].fontWeight = currentPara.fontWeight
           /\ sorted[idx].fontStyle = currentPara.fontStyle
           /\ WithinLineTolerance(sorted[idx], lastItem))
              => MergesRun]_vars

\* C28 happens: two runs without a color were returned as one paragraph, and
\* a run on the same baseline that differs from them only in having a color
\* as a paragraph of its own.
C28_Witness ==
    /\ pc = "done"
    /\ Len(paragraphs) = 2
    /\ Len(RunsOf(paragraphs[1])) = 2
    /\ paragraphs[1].color = Undefined
    /\ items[RunsOf(paragraphs[1])[2]].color = Undefined
    /\ paragraphs[2] = [paragraphs[1] EXCEPT
                           !.color = Black,
                           !.text = paragraphs[2].text,
                           !.width = paragraphs[2].width,
                           !.lines = paragraphs[2].lines]

\* C29: inside the loop no paragraph is open and no run is remembered until
\* the first non-whitespace run has been visited; from then on a paragraph is
\* open in every state, and the remembered run is the non-whitespace run
\* visited last and the last run of the open paragraph.
C29_OneOpenParagraph ==
    /\ [](pc = "loop" =>
            LET seen == {j \in 1..(idx - 1) : HasInk(sorted[j].str)}
            IN  IF seen = {}
                THEN currentPara = Null /\ lastItem = Null
                ELSE /\ currentPara # Null
                     /\ lastItem = sorted[Largest(seen)]
                     /\ RunsOf(currentPara)[Len(RunsOf(currentPara))] = lastItem.id)
    /\ [][(pc = "loop" /\ currentPara # Null) => currentPara' # Null]_vars

\* C29 happens: the pass is over with a paragraph closed, another open, and a
\* whitespace-only run visited after the first paragraph was opened.
C29_Witness ==
    /\ pc = "loop"
    /\ idx > Len(sorted)
    /\ Len(paragraphs) >= 1
    /\ currentPara # Null
    /\ \E j, k \in 1..Len(sorted) :
          j < k /\ HasInk(sorted[j].str) /\ ~HasInk(sorted[k].str)

\* C30: a step leaves every paragraph already in the output as it is, and a
\* paragraph that a step adds to the output is the open paragraph as it was
\* before the step.
C30_ClosedParagraphsFrozen ==
    [][pc = "loop" =>
          /\ Len(paragraphs') >= Len(paragraphs)
          /\ \A p \in 1..Len(paragraphs) : paragraphs'[p] = paragraphs[p]
          /\ Len(paragraphs') > Len(paragraphs)
                => paragraphs' = Append(paragraphs, currentPara)]_vars

\* C30 happens: a call returned a first paragraph that was closed before a run
\* was merged into the second.
C30_Witness ==
    /\ pc = "done"
    /\ Len(paragraphs) = 2
    /\ Len(RunsOf(paragraphs[2])) >= 2

\* C31: a compatible run that is within the same-line tolerance of the last
\* run and also within the next-line gap below it is appended to the last
\* run's line, aligned with the paragraph or not, and the width becomes
\* max(previous width, (r.x + r.width) - paragraph.x).
C31_SameLineWinsOverNextLine ==
    [][(/\ AtRunWithOpenParagraph
        /\ IsCompatibleRun(sorted[idx], currentPara)
        /\ WithinLineTolerance(sorted[idx], lastItem)
        /\ WithinNextLineGap(sorted[idx], lastItem))
          => /\ JoinsLastLine
             /\ currentPara'.width
                  = Largest({currentPara.width,
                             RightEdge(sorted[idx]) - currentPara.x})]_vars

\* C31 happens: a returned paragraph has on one line a run and, after it, a
\* run 1 lower and 25 further right.
C31_Witness ==
    /\ pc = "done"
    /\ \E p \in 1..Len(paragraphs) :
          /\ Len(paragraphs[p].lines) = 1
          /\ \E k \in 1..(Len(RunsOf(paragraphs[p])) - 1) :
                LET last == items[RunsOf(paragraphs[p])[k]]
                    r == items[RunsOf(paragraphs[p])[k + 1]]
                IN  /\ last.y - r.y = 1 * Den
                    /\ r.x - paragraphs[p].x = 25 * Den

\* C32: the messages posted in an import are create-page messages for the
\* pages 0, 1, 2, ... in that order, one per page, each carrying the data of
\* its page and posted after getPageData of its page resolved; and step is
\* 'complete' only when numPages messages have been posted.
C32_PagesPostedInOrder ==
    /\ \A k \in 1..Len(app.posted) :
          /\ app.posted[k].type = "create-page"
          /\ app.posted[k].index = k - 1
          /\ app.posted[k].data = k - 1
          /\ app.posted[k].index \in app.resolved
    /\ Len(app.posted) <= app.numPages
    /\ app.step = "complete" =>
          (app.numPages >= 1 /\ Len(app.posted) = app.numPages)

\* C32 happens: an import of a document of at least two pages is complete.
C32_Witness ==
    /\ app.step = "complete"
    /\ app.numPages >= 2
    /\ Len(app.posted) = app.numPages

\* C33: the step in which an awaited promise of handleImport rejects takes
\* step from 'processing' to 'settings' and keeps the file; as long as that
\* import is the last one, step is not 'complete', no message is posted, and
\* the messages posted are those of the pages before the failing one; and a
\* handleImport call without a file changes nothing.
C33_FailureReturnsToSettings ==
    /\ [][(~app.failed /\ app'.failed) =>
             /\ app.step = "processing"
             /\ app'.step = "settings"
             /\ app'.file = app.file
             /\ app'.posted = app.posted]_vars
    /\ [][(app.failed /\ app'.failed) => app'.posted = app.posted]_vars
    /\ [](app.failed =>
             /\ app.step # "complete"
             /\ app.step # "processing"
             /\ \A k \in 1..Len(app.posted) : app.posted[k].index < app.i)
    /\ [][(app.file = Null /\ app'.imports # app.imports) =>
             app' = [app EXCEPT !.imports = app'.imports]]_vars

\* C33 happens: getPageData of the second page failed after the first page's
\* message was posted, and the file is still selected.
C33_Witness ==
    /\ app.failed
    /\ app.step = "settings"
    /\ app.file # Null
    /\ app.i = 1
    /\ Len(app.posted) = 1

\* C34: a getPageData call made while no load has completed throws "PDF not
\* loaded" in the step it is made, without going to the document and without
\* touching console.warn.
C34_NotLoadedGuard ==
    [][\A c \in Calls :
          (/\ processor.calls[c].at = "new"
           /\ processor'.calls[c].at # "new"
           /\ processor.pdf = "null")
             => /\ processor'.calls[c].at = "threw"
                /\ processor'.calls[c].error = "PDF not loaded"
                /\ ~processor'.calls[c].touched
                /\ processor'.warn = processor.warn]_vars

\* C34 happens: a call made while load was under way, and before it one made
\* before load was called, have thrown "PDF not loaded".
C34_Witness ==
    /\ processor.loading
    /\ processor.calls[1].at = "threw"
    /\ processor.calls[2].at = "threw"
    /\ processor.calls[2].error = "PDF not loaded"

\* C35: whenever no getPageData call is running, console.warn is the function
\* that was installed before the first call.
C35_WarnRestored ==
    (\A c \in Calls : processor.calls[c].at # "running")
        => processor.warn = NativeWarn

\* the nodes of one frame that come from an SVG string
VectorGraphics(f) ==
    SelectSeq(plugin.children[f],
              LAMBDA n : n.kind \in {"Vector Graphics (Hi-Fi)",
                                     "Vector Graphics (Sanitized)",
                                     "Vector Graphics (Safe)"})

\* the text nodes of one frame
TextNodes(pl, f) == SelectSeq(pl.children[f], LAMBDA n : n.kind = "text")

\* every attempt of the cascade of message p has thrown
AllPassesFailed(pl, p) ==
    /\ Len(pl.pages[p].tried) = 3
    /\ \A k \in 1..3 : ~pl.pages[p].tried[k].ok

\* C36: a frame holds at most one vector-graphics node; the passes are tried
\* in the order Hi-Fi, Sanitized, Safe, each only after every pass before it
\* has failed; and with all three failed processItems goes on to the fonts
\* and then appends the text nodes unless the text loop itself throws.
C36_SvgCascade ==
    /\ [](\A p \in Messages :
            /\ Len(VectorGraphics(p)) <= 1
            /\ \A k \in 1..Len(plugin.pages[p].tried) :
                  /\ plugin.pages[p].tried[k].pass
                        = <<"Hi-Fi", "Sanitized", "Safe">>[k]
                  /\ \A j \in 1..(k - 1) : ~plugin.pages[p].tried[j].ok
            /\ plugin.pages[p].tried # <<>> =>
                  (Len(VectorGraphics(p)) = 1
                      <=> plugin.pages[p].tried[Len(plugin.pages[p].tried)].ok))
    /\ [][\A p \in Messages :
            /\ (plugin.pages[p].at = "new" /\ plugin'.pages[p].at # "new")
                  => plugin'.pages[p].at = "fonts"
            /\ (AllPassesFailed(plugin, p) /\ plugin'.pages[p].at = "done")
                  => Len(TextNodes(plugin', p))
                        = Len(TextNodes(plugin, p)) + plugin.pages[p].items
          ]_vars

\* C36 happens: all three passes of message 1 have thrown and its text node
\* is in its frame; the second pass of message 2 has worked.
C36_Witness ==
    /\ AllPassesFailed(plugin, 1)
    /\ plugin.pages[1].at = "done"
    /\ Len(TextNodes(plugin, 1)) = 1
    /\ Len(plugin.pages[2].tried) = 2
    /\ Len(VectorGraphics(2)) = 1

\* how often frame f is among the children of the current page
TimesOnPage(f) ==
    Cardinality({k \in 1..Len(plugin.currentPage) : plugin.currentPage[k] = f})

\* C37: every node is a child of the frame of the message it was made for,
\* the frame of a handled message is on the current page exactly once, and a
\* processItems suspended at a font load can always go on, whatever has
\* become of the others.
C37_PagesKeptApart ==
    \A p \in Messages :
        /\ \A k \in 1..Len(plugin.children[p]) :
              plugin.children[p][k].page = p
        /\ TimesOnPage(p) = (IF plugin.pages[p].at = "new" THEN 0 ELSE 1)
        /\ plugin.pages[p].at = "fonts" =>
              ENABLED (NextPlugin /\ plugin'.pages[p] # plugin.pages[p])

\* C37 happens: the processItems of message 1 was rejected, and that of
\* message 2 has put its text node into its own frame all the same.
C37_Witness ==
    /\ plugin.pages[1].at = "rejected"
    /\ plugin.pages[2].at = "done"
    /\ Len(TextNodes(plugin, 2)) = 1
    /\ Len(TextNodes(plugin, 1)) = 0
    /\ plugin.currentPage = <<1, 2>>

=============================================================================
